---------------------------- MODULE Spec2Model ----------------------------
(***************************************************************************)
(* Fair Value Gap detection and composite confluence scoring               *)
(* (src/src/lib/ict.ts, findFVGs and its helpers) as a state machine.      *)
(*                                                                         *)
(* Conventions                                                             *)
(*  - Candle indices are the 0-based indices of the source; D(data, j) is  *)
(*    data[j] of the source.                                               *)
(*  - Prices are integers (ticks).  Every float expression of the source   *)
(*    is compared exactly as a rational: x > s/p is x*p > s, and           *)
(*    x <= b*1.002 is x*1000 <= b*1002.                                    *)
(*  - A time value is a tagged record: [kind |-> "num", v |-> seconds] for *)
(*    a JS number, [kind |-> "date", v |-> day] for a "YYYY-MM-DD" string  *)
(*    (v is the day's ordinal, so string order is the order of v).         *)
(*  - A JS number that may be NaN is [nan |-> BOOLEAN, v |-> Int].         *)
(***************************************************************************)
EXTENDS Integers, Sequences, FiniteSets, TLC

(* ------------------------- program constants -------------------------- *)

SMA_PERIOD == 50
ATR_PERIOD == 14
\* DISPLACEMENT_MULT = 1.5 as the fraction DISPLACEMENT_NUM / DISPLACEMENT_DEN
DISPLACEMENT_NUM == 3
DISPLACEMENT_DEN == 2
MIN_SCORE == 60

\* mutant of CONFLUENCE_WEIGHTS: the trend criterion weighs 30
CONFLUENCE_WEIGHTS_TrendHeavy ==
    [ marketStructure |-> 30, sessionOverlap |-> 15, orderBlock |-> 20,
      fvgPresence |-> 15, liquiditySwept |-> 15, discountPremium |-> 10,
      candlestick |-> 5 ]

CONFLUENCE_WEIGHTS ==
    [ marketStructure |-> 20, sessionOverlap |-> 15, orderBlock |-> 20,
      fvgPresence |-> 15, liquiditySwept |-> 15, discountPremium |-> 10,
      candlestick |-> 5 ]

COLOR_BULLISH_FVG == "#22c55e55"
COLOR_BEARISH_FVG == "#ef444455"
COLOR_LONG_ENTRY == "#10b981"
COLOR_SHORT_ENTRY == "#e11d48"

(* ------------------------------ helpers ------------------------------- *)

Abs(x) == IF x < 0 THEN -x ELSE x
MathMax(a, b) == IF a >= b THEN a ELSE b
MathMin(a, b) == IF a <= b THEN a ELSE b

\* data[j] of the source (0-based)
D(data, j) == data[j + 1]

NaN == [nan |-> TRUE, v |-> 0]
Num(n) == [nan |-> FALSE, v |-> n]

\* Number(time) for a string, the number itself otherwise: a "YYYY-MM-DD"
\* string is not a numeric literal, so Number() of it is NaN
ToNumber(time) == IF time.kind = "date" THEN NaN ELSE Num(time.v)

RECURSIVE SumClose(_, _, _)
SumClose(data, from, to) ==
    IF from > to THEN 0 ELSE D(data, from).close + SumClose(data, from + 1, to)

RECURSIVE SumBody(_, _, _)
SumBody(data, from, to) ==
    IF from > to THEN 0
    ELSE Abs(D(data, from).close - D(data, from).open) + SumBody(data, from + 1, to)

\* mutant of sma: during warm-up the mean of the closes there are
sma_Partial(data, endIdx, period) ==
    IF endIdx < period - 1
    THEN [nan |-> FALSE, sum |-> SumClose(data, 0, endIdx), period |-> endIdx + 1]
    ELSE [nan |-> FALSE, sum |-> SumClose(data, endIdx - period + 1, endIdx),
          period |-> period]

\* sma: NaN, or the rational sum / period
sma(data, endIdx, period) ==
    IF endIdx < period - 1
    THEN [nan |-> TRUE, sum |-> 0, period |-> period]
    ELSE [nan |-> FALSE, sum |-> SumClose(data, endIdx - period + 1, endIdx),
          period |-> period]

\* x > s and x < s for s a result of sma; any comparison with NaN is false
GtSma(x, s) == (~s.nan) /\ x * s.period > s.sum
LtSma(x, s) == (~s.nan) /\ x * s.period < s.sum

\* avgBody: the rational sum / count (0 when count = 0)
avgBody(data, endIdx, period) ==
    LET start == MathMax(0, endIdx - period + 1)
        count == endIdx - start + 1
    IN IF count > 0
       THEN [sum |-> SumBody(data, start, endIdx), count |-> count]
       ELSE [sum |-> 0, count |-> 1]

\* mutant of Displaced: the multiplier is left out
Displaced_NoMultiplier(bodyPrev1, avgBody14) ==
    bodyPrev1 * avgBody14.count > avgBody14.sum

\* bodyPrev1 > DISPLACEMENT_MULT * avgBody14
Displaced(bodyPrev1, avgBody14) ==
    bodyPrev1 * DISPLACEMENT_DEN * avgBody14.count > DISPLACEMENT_NUM * avgBody14.sum

\* mutant of isNYSession: the last minute of a window is outside it
isNYSession_ExclusiveEnd(time) ==
    LET n == ToNumber(time) IN
    IF n.nan \/ n.v < 1000000000 THEN FALSE
    ELSE LET totalMinutes == (n.v % 86400) \div 60
         IN (totalMinutes >= 870 /\ totalMinutes < 990)
            \/ (totalMinutes >= 1110 /\ totalMinutes < 1230)

\* mutant of isNYSession: the magnitude test is left out
isNYSession_NoThreshold(time) ==
    LET n == ToNumber(time) IN
    IF n.nan THEN FALSE
    ELSE LET totalMinutes == (n.v % 86400) \div 60
         IN (totalMinutes >= 870 /\ totalMinutes <= 990)
            \/ (totalMinutes >= 1110 /\ totalMinutes <= 1230)

\* ts = time * 1000 and ts < 1e12 is time < 10^9; getUTCHours()*60 +
\* getUTCMinutes() of a non-negative whole number of seconds is
\* (time mod 86400) div 60
isNYSession(time) ==
    LET n == ToNumber(time) IN
    IF n.nan \/ n.v < 1000000000 THEN FALSE
    ELSE LET totalMinutes == (n.v % 86400) \div 60
             nyAmStart == 14 * 60 + 30
             nyAmEnd == 16 * 60 + 30
             nyPmStart == 18 * 60 + 30
             nyPmEnd == 20 * 60 + 30
         IN (totalMinutes >= nyAmStart /\ totalMinutes <= nyAmEnd)
            \/ (totalMinutes >= nyPmStart /\ totalMinutes <= nyPmEnd)

RECURSIVE MinLow(_, _, _)
\* min of data[j].low for from <= j < to (the window is never empty here)
MinLow(data, from, to) ==
    IF from + 1 >= to THEN D(data, from).low
    ELSE MathMin(D(data, from).low, MinLow(data, from + 1, to))

RECURSIVE MaxHigh(_, _, _)
MaxHigh(data, from, to) ==
    IF from + 1 >= to THEN D(data, from).high
    ELSE MathMax(D(data, from).high, MaxHigh(data, from + 1, to))


(* --------------------- composite score calculator --------------------- *)

\* mutant of msPass: the alignment is taken as settled by the formation-time
\* gate and only the average's existence is tested
msPass_AlreadyGated(type, curr, sma50) == ~sma50.nan

\* 1. Market structure: SMA50 trend alignment at the current candle
msPass(type, curr, sma50) ==
    IF type = "LONG" THEN (~sma50.nan) /\ GtSma(curr.close, sma50)
    ELSE (~sma50.nan) /\ LtSma(curr.close, sma50)

\* mutant of obPass: the candle at currentIndex is looked at as well
obPass_IncludesCurrent(data, currentIndex, type, zone) ==
    LET obLookback == MathMax(0, currentIndex - 20) IN
    IF type = "LONG"
    THEN \E j \in obLookback .. currentIndex :
            /\ D(data, j).low * 1000 <= zone.bottom * 1002
            /\ D(data, j).low * 1000 >= zone.bottom * 995
    ELSE \E j \in obLookback .. currentIndex :
            /\ D(data, j).high * 1000 >= zone.top * 998
            /\ D(data, j).high * 1000 <= zone.top * 1005

\* 3. Order block proxy: a low (LONG) or high (SHORT) of the last 20 candles
\*    before currentIndex inside the band around the zone edge
obPass(data, currentIndex, type, zone) ==
    LET obLookback == MathMax(0, currentIndex - 20) IN
    IF type = "LONG"
    THEN \E j \in obLookback .. currentIndex - 1 :
            /\ D(data, j).low * 1000 <= zone.bottom * 1002
            /\ D(data, j).low * 1000 >= zone.bottom * 995
    ELSE \E j \in obLookback .. currentIndex - 1 :
            /\ D(data, j).high * 1000 >= zone.top * 998
            /\ D(data, j).high * 1000 <= zone.top * 1005

\* mutant of fvgScore: the points are not given
fvgScore_Zero(W) == 0

\* 4. FVG presence: always true when this function is called
fvgScore(W) == W.fvgPresence

\* 5. Liquidity swept: the candle before formation against the extreme of
\*    the window liqLookback .. formedAt-1
liqPass(data, type, zone) ==
    LET liqLookback == MathMax(0, zone.formedAt - 10) IN
    IF type = "LONG"
    THEN /\ zone.formedAt > 0
         /\ LET swingLow == MinLow(data, liqLookback, zone.formedAt)
            IN D(data, zone.formedAt - 1).low * 1000 <= swingLow * 1001
    ELSE /\ zone.formedAt > 0
         /\ LET swingHigh == MaxHigh(data, liqLookback, zone.formedAt)
            IN D(data, zone.formedAt - 1).high * 1000 >= swingHigh * 999

\* mutant of dpPass: the range runs on to the last candle of data
dpPass_ToEnd(data, currentIndex, type) ==
    LET dpLookback == MathMax(0, currentIndex - 40) IN
    IF currentIndex <= 0 THEN FALSE
    ELSE LET rangeHigh == MaxHigh(data, dpLookback, Len(data))
             rangeLow == MinLow(data, dpLookback, Len(data))
         IN IF type = "LONG"
            THEN 2 * D(data, currentIndex).close <= rangeHigh + rangeLow
            ELSE 2 * D(data, currentIndex).close >= rangeHigh + rangeLow

\* mutant of dpPass: the range runs up to and including the current candle
dpPass_Inclusive(data, currentIndex, type) ==
    LET dpLookback == MathMax(0, currentIndex - 40) IN
    LET rangeHigh == MaxHigh(data, dpLookback, currentIndex + 1)
        rangeLow == MinLow(data, dpLookback, currentIndex + 1)
    IN IF type = "LONG"
       THEN 2 * D(data, currentIndex).close <= rangeHigh + rangeLow
       ELSE 2 * D(data, currentIndex).close >= rangeHigh + rangeLow

\* 6. Discount / premium: close against eq = (rangeHigh + rangeLow) / 2 of
\*    the 40 candles before currentIndex (an empty window makes eq NaN)
dpPass(data, currentIndex, type) ==
    LET dpLookback == MathMax(0, currentIndex - 40) IN
    IF currentIndex <= 0 THEN FALSE
    ELSE LET rangeHigh == MaxHigh(data, dpLookback, currentIndex)
             rangeLow == MinLow(data, dpLookback, currentIndex)
         IN IF type = "LONG"
            THEN 2 * D(data, currentIndex).close <= rangeHigh + rangeLow
            ELSE 2 * D(data, currentIndex).close >= rangeHigh + rangeLow

\* mutant of csPass: a wick of exactly half the body passes
csPass_AtLeastHalf(curr, type) ==
    LET body == Abs(curr.close - curr.open)
        totalRange == curr.high - curr.low
        lowerWick == MathMin(curr.open, curr.close) - curr.low
        upperWick == curr.high - MathMax(curr.open, curr.close)
    IN /\ totalRange > 0
       /\ \/ (type = "LONG" /\ 2 * lowerWick >= body)
          \/ (type = "SHORT" /\ 2 * upperWick >= body)

\* 7. Candlestick: rejection wick longer than half the body
csPass(curr, type) ==
    LET body == Abs(curr.close - curr.open)
        totalRange == curr.high - curr.low
        lowerWick == MathMin(curr.open, curr.close) - curr.low
        upperWick == curr.high - MathMax(curr.open, curr.close)
    IN /\ totalRange > 0
       /\ \/ (type = "LONG" /\ 2 * lowerWick > body)
          \/ (type = "SHORT" /\ 2 * upperWick > body)

\* mutant of Criterion: a failed criterion keeps a quarter of its weight
Criterion_Partial(passed, max) ==
    [score |-> IF passed THEN max ELSE max \div 4, max |-> max, passed |-> passed]

\* { score: passed ? W.x : 0, max: W.x, passed }
Criterion(passed, max) ==
    [score |-> IF passed THEN max ELSE 0, max |-> max, passed |-> passed]

calculateCompositeScore(data, currentIndex, type, zone, sma50) ==
    LET curr == D(data, currentIndex)
        W == CONFLUENCE_WEIGHTS
        ms == Criterion(msPass(type, curr, sma50), W.marketStructure)
        session == Criterion(isNYSession(curr.time), W.sessionOverlap)
        ob == Criterion(obPass(data, currentIndex, type, zone), W.orderBlock)
        fvg == [score |-> fvgScore(W), max |-> W.fvgPresence, passed |-> TRUE]
        liq == Criterion(liqPass(data, type, zone), W.liquiditySwept)
        dp == Criterion(dpPass(data, currentIndex, type), W.discountPremium)
        cs == Criterion(csPass(curr, type), W.candlestick)
    IN [ totalScore |-> ms.score + session.score + ob.score + fvg.score
                        + liq.score + dp.score + cs.score,
         breakdown |-> [ marketStructure |-> ms, sessionOverlap |-> session,
                         orderBlock |-> ob, fvgPresence |-> fvg,
                         liquiditySwept |-> liq, discountPremium |-> dp,
                         candlestick |-> cs ] ]

(* -------------------------- bounded inputs ---------------------------- *)

\* longest tail of free candles appended to the warm-up candles
MaxTail == 4
\* most invocations in one behaviour of SpecCalls
MaxCalls == 3

\* candle shapes <<open, high, low, close>>
WarmShape == <<1000, 1004, 996, 1002>>
TailShapes ==
    { <<1000, 1006, 996, 1002>>,    \* quiet candle that spans 1004..1005
      <<1016, 1024, 1010, 1020>>,   \* up candle that leaves 1004..1010 open
      <<1002, 1003, 986, 988>>,     \* large down candle
      <<1004, 1012, 1005, 1009>> }  \* small candle with its low at 1005

\* the warm-up candles stop two short of SMA_PERIOD, so that the tail holds
\* the candles at SMA_PERIOD - 2, SMA_PERIOD - 1, ... where zones can form
WarmLen == SMA_PERIOD - 2

\* "epoch": hourly epoch seconds, index 50 at 13:30 UTC, index 51 at 14:30;
\* "date":  ascending calendar-date strings;
\* "old":   hourly epoch seconds of the year 1997, below 10^9, at the same
\*          times of day as "epoch" (used by ExtraInputs only);
\* "fold":  hourly epoch seconds that rise up to index SMA_PERIOD - 1 and
\*          fall from there on (index 50 repeats the time of index 49)
TimeSchemes == {"epoch", "date", "fold"}

TimeOf(k, scheme) ==
    CASE scheme = "epoch" -> [kind |-> "num", v |-> 1699968600 + 3600 * (k - 50)]
      [] scheme = "date"  -> [kind |-> "date", v |-> k]
      [] scheme = "old"   -> [kind |-> "num", v |-> 864048600 + 3600 * (k - 50)]
      [] scheme = "fold"  ->
            [kind |-> "num",
             v |-> 1699968600 + 3600 * ((IF k < SMA_PERIOD THEN k
                                         ELSE 2 * SMA_PERIOD - 1 - k) - 50)]

Candle(k, shape, scheme) ==
    [ time |-> TimeOf(k, scheme), open |-> shape[1], high |-> shape[2],
      low |-> shape[3], close |-> shape[4] ]

\* the warm-up candles followed by the candles of tail
Series(tail, scheme) ==
    [ k \in 1 .. (WarmLen + Len(tail)) |->
        Candle(k - 1, IF k <= WarmLen THEN WarmShape ELSE tail[k - WarmLen], scheme) ]

\* the candles of tail alone
Bare(tail, scheme) ==
    [ k \in 1 .. Len(tail) |-> Candle(k - 1, tail[k], scheme) ]

\* one warm-up candle fewer: the tail then starts at SMA_PERIOD - 3 and holds
\* an index below SMA_PERIOD - 1 with a displaced candle before it
EarlySeries(tail, scheme) ==
    [ k \in 1 .. (WarmLen - 1 + Len(tail)) |->
        Candle(k - 1, IF k <= WarmLen - 1 THEN WarmShape ELSE tail[k - WarmLen + 1],
               scheme) ]

\* handpicked tails beyond the shapes of TailShapes: a candle of zero range
\* (open = high = low = close = 1008) that re-enters the zones left open
\* before it
ExtraTails ==
    { << <<1016, 1024, 1010, 1020>>, <<1016, 1024, 1010, 1020>>,
         <<1008, 1008, 1008, 1008>> >>,
      << <<1016, 1024, 1010, 1020>>, <<1016, 1024, 1010, 1020>>,
         <<1000, 1006, 996, 1002>>, <<1008, 1008, 1008, 1008>> >>,
      << <<1002, 1003, 986, 988>>, <<1016, 1024, 1010, 1020>>,
         <<1008, 1008, 1008, 1008>> >>,
      \* a candle that re-enters the zone and whose own high lies far above
      \* the range of the candles before it
      << <<1016, 1024, 1010, 1020>>, <<1016, 1024, 1010, 1020>>,
         <<1012, 1060, 1008, 1020>> >> }

\* handpicked tails for candles timed below 10^9 seconds
OldTails ==
    { << <<1016, 1024, 1010, 1020>>, <<1016, 1024, 1010, 1020>>,
         <<1000, 1006, 996, 1002>>, <<1000, 1006, 996, 1002>> >>,
      << <<1016, 1024, 1010, 1020>>, <<1004, 1012, 1005, 1009>>,
         <<1000, 1006, 996, 1002>>, <<1004, 1012, 1005, 1009>> >> }

\* the candles of Series(tail, scheme) with the low of the warm-up candle at
\* index at raised to 999, which leaves its body and its close as they were
DentedSeries(tail, scheme, at) ==
    [ Series(tail, scheme) EXCEPT ![at + 1].low = 999 ]

\* a zone over 1004..1010 formed at index 49 and re-entered at index 50, with
\* the raised low 21 and 20 candles before the re-entry
DentedInputs ==
    { DentedSeries(<< <<1016, 1024, 1010, 1020>>, <<1016, 1024, 1010, 1020>>,
                      <<1004, 1012, 1005, 1009>> >>, "epoch", at) : at \in {29, 30} }

ExtraInputs ==
    { Series(tail, s) : tail \in ExtraTails, s \in {"epoch", "date"} }
    \cup { Series(tail, "old") : tail \in OldTails }
    \cup DentedInputs

Tails == UNION { [1 .. t -> TailShapes] : t \in 0 .. MaxTail }

Inputs ==
    { Series(tail, s) : tail \in Tails, s \in TimeSchemes }
    \cup { Bare(tail, s) : tail \in Tails, s \in TimeSchemes }
    \cup { EarlySeries(tail, "epoch") : tail \in Tails }
    \cup ExtraInputs
    \cup { SubSeq(Series(<< >>, s), 1, n) : n \in 0 .. WarmLen, s \in TimeSchemes }

\* the sequences SpecCalls invokes findFVGs on, one after another
PoolTails ==
    { << >>,
      << <<1002, 1003, 986, 988>>, <<1016, 1024, 1010, 1020>> >>,
      << <<1002, 1003, 986, 988>>, <<1016, 1024, 1010, 1020>>,
         <<1000, 1004, 996, 1002>>, <<1016, 1024, 1010, 1020>> >>,
      << <<1016, 1024, 1010, 1020>>, <<1016, 1024, 1010, 1020>>,
         <<1000, 1004, 996, 1002>> >>,
      << <<1016, 1024, 1010, 1020>>, <<1016, 1024, 1010, 1020>>,
         <<1000, 1004, 996, 1002>>, <<1000, 1004, 996, 1002>> >> }

Pool == { Series(tail, "epoch") : tail \in PoolTails }

(* ------------------------------- state -------------------------------- *)

VARIABLES
    data,       \* the argument of the running (or last) invocation
    pc,         \* "idle" before the call, "scan" in the loop, "done" after return
    i,          \* the loop index of findFVGs
    markers,    \* const markers
    signals,    \* const signals
    openZones,  \* const openZones
    result,     \* the value returned by the last invocation
    mitLog,     \* history: one entry per execution of zone.mitigated = true,
                \* with the score computed for it
    calls,      \* history: <<argument, result>> of every returned invocation
    peer,       \* a second invocation in progress at the same time: its own
                \* argument, position, locals and result, as a record
    probe       \* a call of isNYSession on its own: argument, position, result

vars == <<data, pc, i, markers, signals, openZones, result, mitLog, calls, peer,
          probe>>

EmptyResult == [markers |-> << >>, signals |-> << >>]

\* an invocation on d that has not been entered yet
IdleFrame(d) ==
    [ data |-> d, pc |-> "idle", i |-> 0, markers |-> << >>, signals |-> << >>,
      openZones |-> << >>, result |-> EmptyResult, mitLog |-> << >> ]

\* no second invocation
NoPeer == IdleFrame(<< >>)

\* a call of isNYSession(time) that has not been entered yet
IdleProbe(time) == [time |-> time, pc |-> "idle", passed |-> FALSE]

\* no call of isNYSession on its own
NoProbe == IdleProbe([kind |-> "num", v |-> 0])

(* ------------------------------ findFVGs ------------------------------ *)

\* mutant of TooShort: the minimum history is taken to be the 3-candle pattern
TooShort_ThreeOnly(d) == Len(d) < 3

\* if (data.length < Math.max(3, SMA_PERIOD)) return { markers: [], signals: [] }
TooShort(d) == Len(d) < MathMax(3, SMA_PERIOD)

\* mutant of NewZones: the list is module-level and an invocation starts
\* from the zones that are still open in it
NewZones_StillOpen(old) == SelectSeq(old, LAMBDA z : ~z.mitigated)

\* mutant of NewZones: the list is module-level and outlives the invocation
NewZones_Kept(old) == old

\* const openZones = []: a fresh list for every invocation
NewZones(old) == << >>

\* Phase A, bullish: gap above prev2, close above SMA50, displaced prev1
BullishFVG(d, idx) ==
    LET prev2 == D(d, idx - 2)
        prev1 == D(d, idx - 1)
        curr == D(d, idx)
        sma50 == sma(d, idx, SMA_PERIOD)
        hasSma == ~sma50.nan
        bodyPrev1 == Abs(prev1.close - prev1.open)
        avgBody14 == avgBody(d, idx - 1, ATR_PERIOD)
    IN /\ curr.low > prev2.high
       /\ hasSma /\ GtSma(curr.close, sma50)
       /\ Displaced(bodyPrev1, avgBody14)

\* mutant of BearishFVG: the second test is a copy of the bullish one
BearishFVG_AsBullish(d, idx) ==
    LET prev2 == D(d, idx - 2)
        prev1 == D(d, idx - 1)
        curr == D(d, idx)
        sma50 == sma(d, idx, SMA_PERIOD)
        hasSma == ~sma50.nan
        bodyPrev1 == Abs(prev1.close - prev1.open)
        avgBody14 == avgBody(d, idx - 1, ATR_PERIOD)
    IN /\ curr.low > prev2.high
       /\ hasSma /\ GtSma(curr.close, sma50)
       /\ Displaced(bodyPrev1, avgBody14)

\* Phase A, bearish: gap below prev2, close below SMA50, displaced prev1
BearishFVG(d, idx) ==
    LET prev2 == D(d, idx - 2)
        prev1 == D(d, idx - 1)
        curr == D(d, idx)
        sma50 == sma(d, idx, SMA_PERIOD)
        hasSma == ~sma50.nan
        bodyPrev1 == Abs(prev1.close - prev1.open)
        avgBody14 == avgBody(d, idx - 1, ATR_PERIOD)
    IN /\ curr.high < prev2.low
       /\ hasSma /\ LtSma(curr.close, sma50)
       /\ Displaced(bodyPrev1, avgBody14)

BullishZone(d, idx) ==
    [ type |-> "bullish", top |-> D(d, idx).low, bottom |-> D(d, idx - 2).high,
      mitigated |-> FALSE, time |-> D(d, idx).time, formedAt |-> idx ]

\* mutant of BearishZone: top and bottom are taken as in the bullish branch,
\* from the forming candle and the candle two positions earlier
BearishZone_Unmirrored(d, idx) ==
    [ type |-> "bearish", top |-> D(d, idx).high, bottom |-> D(d, idx - 2).low,
      mitigated |-> FALSE, time |-> D(d, idx).time, formedAt |-> idx ]

BearishZone(d, idx) ==
    [ type |-> "bearish", top |-> D(d, idx - 2).low, bottom |-> D(d, idx).high,
      mitigated |-> FALSE, time |-> D(d, idx).time, formedAt |-> idx ]

BullishMarker(curr) ==
    [ time |-> curr.time, position |-> "belowBar", color |-> COLOR_BULLISH_FVG,
      shape |-> "square", text |-> <<"FVG_UP">>, size |-> 1 ]

BearishMarker(curr) ==
    [ time |-> curr.time, position |-> "aboveBar", color |-> COLOR_BEARISH_FVG,
      shape |-> "square", text |-> <<"FVG_DOWN">>, size |-> 1 ]

\* the text `<target> ${signalType} (${totalScore}%)` by its parts
EntryMarker(curr, signalType, totalScore) ==
    [ time |-> curr.time,
      position |-> IF signalType = "LONG" THEN "belowBar" ELSE "aboveBar",
      color |-> IF signalType = "LONG" THEN COLOR_LONG_ENTRY ELSE COLOR_SHORT_ENTRY,
      shape |-> IF signalType = "LONG" THEN "arrowUp" ELSE "arrowDown",
      text |-> <<"ENTRY", signalType, totalScore>>, size |-> 2 ]

\* mutant of PhaseA: the bearish branch pushes the zone without its marker
PhaseA_NoBearishMarker(d, idx, st) ==
    LET curr == D(d, idx)
        s1 == IF BullishFVG(d, idx)
              THEN [st EXCEPT !.openZones = Append(@, BullishZone(d, idx)),
                              !.markers = Append(@, BullishMarker(curr))]
              ELSE st
    IN IF BearishFVG(d, idx)
       THEN [s1 EXCEPT !.openZones = Append(@, BearishZone(d, idx))]
       ELSE s1

\* Phase A of iteration idx on the locals st
PhaseA(d, idx, st) ==
    LET curr == D(d, idx)
        s1 == IF BullishFVG(d, idx)
              THEN [st EXCEPT !.openZones = Append(@, BullishZone(d, idx)),
                              !.markers = Append(@, BullishMarker(curr))]
              ELSE st
    IN IF BearishFVG(d, idx)
       THEN [s1 EXCEPT !.openZones = Append(@, BearishZone(d, idx)),
                       !.markers = Append(@, BearishMarker(curr))]
       ELSE s1

\* mutant of SkipZone: a mitigated zone is tested again
SkipZone_TimeOnly(zone, curr) == zone.time = curr.time

\* mutant of SkipZone: a zone is tested against its own forming candle
SkipZone_MitigatedOnly(zone, curr) == zone.mitigated

\* if (zone.mitigated || zone.time === curr.time) continue
SkipZone(zone, curr) == zone.mitigated \/ zone.time = curr.time

\* mutant of MitigationType: any candle that reaches into or through the
\* zone mitigates it
MitigationType_Overlap(zone, curr) ==
    IF zone.type = "bullish" /\ curr.low <= zone.top
    THEN "LONG"
    ELSE IF zone.type = "bearish" /\ curr.high >= zone.bottom
         THEN "SHORT"
         ELSE "null"

\* mutant of MitigationType: the price tests are left out, so that the first
\* later candle mitigates the zone wherever it trades
MitigationType_AnyLater(zone, curr) ==
    IF zone.type = "bullish" THEN "LONG" ELSE "SHORT"

\* signalType after the two mitigation tests ("null" when neither triggers)
MitigationType(zone, curr) ==
    IF zone.type = "bullish" /\ curr.low <= zone.top /\ curr.low >= zone.bottom
    THEN "LONG"
    ELSE IF zone.type = "bearish" /\ curr.high >= zone.bottom /\ curr.high <= zone.top
         THEN "SHORT"
         ELSE "null"

\* mutant of PassesGate: every mitigation is emitted
PassesGate_Always(totalScore) == totalScore >= 0

\* if (totalScore >= MIN_SCORE)
PassesGate(totalScore) == totalScore >= MIN_SCORE

\* mutant of Mitigate: the zone is closed by moving its bottom up to its top
Mitigate_Collapsed(zone) == [zone EXCEPT !.mitigated = TRUE, !.bottom = zone.top]

\* mutant of Mitigate: the flag is not set
Mitigate_Forgotten(zone) == zone

\* zone.mitigated = true
Mitigate(zone) == [zone EXCEPT !.mitigated = TRUE]

\* mutant of NextZone: the loop is left after the first mitigation
NextZone_Break(k, n, triggered) == IF triggered THEN n + 1 ELSE k + 1

\* `for (const zone of openZones)`: the position visited after position k of
\* a list of n zones, whether or not the zone at k was just mitigated
NextZone(k, n, triggered) == k + 1

RECURSIVE PhaseB(_, _, _, _)
\* Phase B of iteration idx: the body of `for (const zone of openZones)` for
\* the zones at positions k, k+1, ... of st.openZones
PhaseB(d, idx, k, st) ==
    IF k > Len(st.openZones) THEN st
    ELSE
      LET zone == st.openZones[k]
          curr == D(d, idx)
          n == Len(st.openZones)
      IN IF SkipZone(zone, curr) THEN PhaseB(d, idx, NextZone(k, n, FALSE), st)
         ELSE
           LET currentSma50 == sma(d, idx, SMA_PERIOD)
               signalType == MitigationType(zone, curr)
           IN IF signalType = "null" THEN PhaseB(d, idx, NextZone(k, n, FALSE), st)
              ELSE
                LET zone2 == Mitigate(zone)
                    sc == calculateCompositeScore(d, idx, signalType, zone2, currentSma50)
                    s1 == [st EXCEPT
                             !.openZones[k] = zone2,
                             !.mitLog = Append(@, [zone |-> k, at |-> idx,
                                                   type |-> signalType,
                                                   totalScore |-> sc.totalScore,
                                                   breakdown |-> sc.breakdown])]
                    s2 == IF PassesGate(sc.totalScore)
                          THEN [s1 EXCEPT
                                  !.markers = Append(@, EntryMarker(curr, signalType,
                                                                    sc.totalScore)),
                                  !.signals = Append(@, [time |-> curr.time,
                                                         type |-> signalType,
                                                         totalScore |-> sc.totalScore,
                                                         breakdown |-> sc.breakdown])]
                          ELSE s1
                IN PhaseB(d, idx, NextZone(k, n, TRUE), s2)

\* mutant of CompareTime: tb - ta
CompareTime_Reversed(a, b) ==
    LET ta == ToNumber(a.time)
        tb == ToNumber(b.time)
    IN IF ta.nan \/ tb.nan THEN 0
       ELSE IF tb.v < ta.v THEN -1 ELSE IF tb.v > ta.v THEN 1 ELSE 0

\* the comparator of markers.sort: ta - tb, as its sign; a NaN result is
\* treated by Array.prototype.sort as +0
CompareTime(a, b) ==
    LET ta == ToNumber(a.time)
        tb == ToNumber(b.time)
    IN IF ta.nan \/ tb.nan THEN 0
       ELSE IF ta.v < tb.v THEN -1 ELSE IF ta.v > tb.v THEN 1 ELSE 0

RECURSIVE InsertMarker(_, _)
\* x put behind the last element of sorted that does not compare above it
InsertMarker(sorted, x) ==
    IF sorted = << >> THEN <<x>>
    ELSE IF CompareTime(sorted[Len(sorted)], x) > 0
         THEN Append(InsertMarker(SubSeq(sorted, 1, Len(sorted) - 1), x),
                     sorted[Len(sorted)])
         ELSE Append(sorted, x)

RECURSIVE SortFrom(_, _, _)
SortFrom(ms, k, sorted) ==
    IF k > Len(ms) THEN sorted ELSE SortFrom(ms, k + 1, InsertMarker(sorted, ms[k]))

\* mutant of SortMarkers: the sort keeps the number it compared by in the
\* time field
SortMarkers_Coerced(ms) ==
    LET sorted == SortFrom(ms, 1, << >>)
    IN [ k \in DOMAIN sorted |->
           [ sorted[k] EXCEPT !.time = [kind |-> "num", v |-> ToNumber(@).v] ] ]

\* markers.sort(comparator): Array.prototype.sort is stable
SortMarkers(ms) == SortFrom(ms, 1, << >>)

(* ------------------------------ actions ------------------------------- *)

\* entry of findFVGs(data): the length test and the three fresh locals
Call ==
    /\ pc = "idle"
    /\ IF TooShort(data)
       THEN /\ pc' = "done"
            /\ result' = EmptyResult
            /\ calls' = Append(calls, <<data, EmptyResult>>)
            /\ UNCHANGED <<i, markers, signals, openZones, mitLog>>
       ELSE /\ pc' = "scan"
            /\ i' = 2
            /\ markers' = << >>
            /\ signals' = << >>
            /\ openZones' = NewZones(openZones)
            /\ mitLog' = << >>
            /\ UNCHANGED <<result, calls>>
    /\ UNCHANGED <<data, peer, probe>>

\* one iteration of `for (let i = 2; i < data.length; i++)`
Step ==
    /\ pc = "scan"
    /\ i < Len(data)
    /\ LET st0 == [openZones |-> openZones, markers |-> markers,
                   signals |-> signals, mitLog |-> mitLog]
           st1 == PhaseB(data, i, 1, PhaseA(data, i, st0))
       IN /\ openZones' = st1.openZones
          /\ markers' = st1.markers
          /\ signals' = st1.signals
          /\ mitLog' = st1.mitLog
    /\ i' = i + 1
    /\ UNCHANGED <<data, pc, result, calls, peer, probe>>

\* loop exit: sort the markers and return
Return ==
    /\ pc = "scan"
    /\ ~(i < Len(data))
    /\ markers' = SortMarkers(markers)
    /\ result' = [markers |-> markers', signals |-> signals]
    /\ calls' = Append(calls, <<data, result'>>)
    /\ pc' = "done"
    /\ UNCHANGED <<data, i, signals, openZones, mitLog, peer, probe>>

\* a further invocation, on any sequence of the pool
CallAgain ==
    /\ pc = "done"
    /\ Len(calls) < MaxCalls
    /\ data' \in Pool
    /\ pc' = "idle"
    /\ UNCHANGED <<i, markers, signals, openZones, result, mitLog, calls, peer,
                   probe>>

InitLocals ==
    /\ pc = "idle"
    /\ i = 0
    /\ markers = << >>
    /\ signals = << >>
    /\ openZones = << >>
    /\ result = EmptyResult
    /\ mitLog = << >>
    /\ calls = << >>

\* one invocation on any bounded input
Init == data \in Inputs /\ InitLocals /\ peer = NoPeer /\ probe = NoProbe
Next == Call \/ Step \/ Return
Spec == Init /\ [][Next]_vars

\* several invocations in a row on the sequences of the pool
InitCalls == data \in Pool /\ InitLocals /\ peer = NoPeer /\ probe = NoProbe
NextCalls == Call \/ Step \/ Return \/ CallAgain
SpecCalls == InitCalls /\ [][NextCalls]_vars

\* entry of the second invocation; whatever zone list exists at that moment
\* is the one in use by the first invocation
PeerCall ==
    /\ peer.pc = "idle"
    /\ IF TooShort(peer.data)
       THEN peer' = [peer EXCEPT !.pc = "done", !.result = EmptyResult]
       ELSE peer' = [peer EXCEPT !.pc = "scan", !.i = 2, !.markers = << >>,
                                 !.signals = << >>,
                                 !.openZones = NewZones(openZones),
                                 !.mitLog = << >>]
    /\ UNCHANGED <<data, pc, i, markers, signals, openZones, result, mitLog, calls,
                   probe>>

\* one loop iteration of the second invocation
PeerStep ==
    /\ peer.pc = "scan"
    /\ peer.i < Len(peer.data)
    /\ LET st0 == [openZones |-> peer.openZones, markers |-> peer.markers,
                   signals |-> peer.signals, mitLog |-> peer.mitLog]
           st1 == PhaseB(peer.data, peer.i, 1, PhaseA(peer.data, peer.i, st0))
       IN peer' = [peer EXCEPT !.openZones = st1.openZones,
                               !.markers = st1.markers,
                               !.signals = st1.signals,
                               !.mitLog = st1.mitLog,
                               !.i = @ + 1]
    /\ UNCHANGED <<data, pc, i, markers, signals, openZones, result, mitLog, calls,
                   probe>>

\* loop exit of the second invocation
PeerReturn ==
    /\ peer.pc = "scan"
    /\ ~(peer.i < Len(peer.data))
    /\ LET sorted == SortMarkers(peer.markers)
       IN peer' = [peer EXCEPT !.markers = sorted,
                               !.result = [markers |-> sorted,
                                           signals |-> peer.signals],
                               !.pc = "done"]
    /\ UNCHANGED <<data, pc, i, markers, signals, openZones, result, mitLog, calls,
                   probe>>

\* two invocations on sequences of the pool, their steps in any order
InitPair ==
    /\ data \in Pool /\ InitLocals
    /\ peer \in { IdleFrame(d) : d \in Pool }
    /\ probe = NoProbe
NextPair == Call \/ Step \/ Return \/ PeerCall \/ PeerStep \/ PeerReturn
SpecPair == InitPair /\ [][NextPair]_vars

\* the days (since 1970-01-01), minutes of the day and seconds of the
\* minute of the times isNYSession is called on by itself: the first whole
\* day above 10^9 seconds, a summer day and a winter day of 2023; the ends of
\* both windows with the minutes next to them
SessionDays == {11575, 19539, 19675}
SessionMinutes ==
    { 0, 869, 870, 871, 930, 989, 990, 991, 1050, 1109, 1110, 1111, 1170,
      1229, 1230, 1231, 1439 }
SessionSeconds == {0, 59}
SessionTimes ==
    { [kind |-> "num", v |-> day * 86400 + minute * 60 + sec] :
        day \in SessionDays, minute \in SessionMinutes, sec \in SessionSeconds }

\* isNYSession(time) called and returned
CallSession ==
    /\ probe.pc = "idle"
    /\ probe' = [probe EXCEPT !.pc = "done", !.passed = isNYSession(probe.time)]
    /\ UNCHANGED <<data, pc, i, markers, signals, openZones, result, mitLog, calls,
                   peer>>

\* one call of isNYSession on any of the times
InitSession ==
    /\ data = << >> /\ InitLocals /\ peer = NoPeer
    /\ probe \in { IdleProbe(t) : t \in SessionTimes }
NextSession == CallSession
SpecSession == InitSession /\ [][NextSession]_vars

RECURSIVE ScanRange(_, _, _, _)
\* the loop iterations lo, lo + 1, ..., hi - 1 of findFVGs on the locals st,
\* in that order and without interruption; the range is run as its first
\* half followed by its second half, which keeps the evaluation shallow
\* (the zone list never shrinks: the test on it is always true, and it makes
\* the locals after the first half a value before the second half starts)
ScanRange(d, lo, hi, st) ==
    IF lo >= hi THEN st
    ELSE IF hi = lo + 1 THEN PhaseB(d, lo, 1, PhaseA(d, lo, st))
    ELSE LET mid == (lo + hi) \div 2
             st1 == ScanRange(d, lo, mid, st)
         IN IF Len(st1.openZones) >= Len(st.openZones)
            THEN ScanRange(d, mid, hi, st1)
            ELSE st1

\* the loop of findFVGs from iteration idx on
ScanFrom(d, idx, st) == ScanRange(d, idx, Len(d), st)

\* the locals of findFVGs(d) at the exit of its loop
ScanAll(d) ==
    ScanFrom(d, 2, [openZones |-> << >>, markers |-> << >>,
                    signals |-> << >>, mitLog |-> << >>])

\* findFVGs(d) run alone from entry to return
findFVGs(d) ==
    IF TooShort(d) THEN EmptyResult
    ELSE LET st == ScanAll(d)
         IN [markers |-> SortMarkers(st.markers), signals |-> st.signals]

(* ---------- the early findFVGs (markers only, no scoring) --------------- *)
(* src/unnamed/part_002: its own constants, helpers and findFVGs            *)

EARLY_SMA_PERIOD == 50
EARLY_ATR_PERIOD == 14
\* DISPLACEMENT_MULTIPLIER = 1.5 as EARLY_DISPLACEMENT_NUM / EARLY_DISPLACEMENT_DEN
EARLY_DISPLACEMENT_NUM == 3
EARLY_DISPLACEMENT_DEN == 2

EARLY_COLOR_BULLISH_FVG == "#22c55e55"
EARLY_COLOR_BEARISH_FVG == "#ef444455"
EARLY_COLOR_LONG_ENTRY == "#10b981"
EARLY_COLOR_SHORT_ENTRY == "#e11d48"

\* sma of the early file: NaN, or the rational sum / period
EarlySma(d, endIdx, period) ==
    IF endIdx < period - 1
    THEN [nan |-> TRUE, sum |-> 0, period |-> period]
    ELSE [nan |-> FALSE, sum |-> SumClose(d, endIdx - period + 1, endIdx),
          period |-> period]

\* avgBody of the early file: the rational sum / count (0 when count = 0)
EarlyAvgBody(d, endIdx, period) ==
    LET start == MathMax(0, endIdx - period + 1)
        count == endIdx - start + 1
    IN IF count > 0
       THEN [sum |-> SumBody(d, start, endIdx), count |-> count]
       ELSE [sum |-> 0, count |-> 1]

\* displacementBody > DISPLACEMENT_MULTIPLIER * avgBody14
EarlyDisplaced(displacementBody, avgBody14) ==
    displacementBody * EARLY_DISPLACEMENT_DEN * avgBody14.count
        > EARLY_DISPLACEMENT_NUM * avgBody14.sum

\* the bullish test of Phase A
EarlyBullishFVG(d, idx) ==
    LET prev1 == D(d, idx - 1)
        prev2 == D(d, idx - 2)
        curr == D(d, idx)
        sma50 == EarlySma(d, idx, EARLY_SMA_PERIOD)
        hasSma == ~sma50.nan
        displacementBody == Abs(prev1.close - prev1.open)
        avgBody14 == EarlyAvgBody(d, idx - 1, EARLY_ATR_PERIOD)
    IN /\ curr.low > prev2.high
       /\ hasSma /\ curr.close * sma50.period > sma50.sum
       /\ EarlyDisplaced(displacementBody, avgBody14)

\* the bearish test of Phase A
EarlyBearishFVG(d, idx) ==
    LET prev1 == D(d, idx - 1)
        prev2 == D(d, idx - 2)
        curr == D(d, idx)
        sma50 == EarlySma(d, idx, EARLY_SMA_PERIOD)
        hasSma == ~sma50.nan
        displacementBody == Abs(prev1.close - prev1.open)
        avgBody14 == EarlyAvgBody(d, idx - 1, EARLY_ATR_PERIOD)
    IN /\ curr.high < prev2.low
       /\ hasSma /\ curr.close * sma50.period < sma50.sum
       /\ EarlyDisplaced(displacementBody, avgBody14)

EarlyBullishZone(d, idx) ==
    [ type |-> "bullish", top |-> D(d, idx).low, bottom |-> D(d, idx - 2).high,
      mitigated |-> FALSE, time |-> D(d, idx).time ]

EarlyBearishZone(d, idx) ==
    [ type |-> "bearish", top |-> D(d, idx - 2).low, bottom |-> D(d, idx).high,
      mitigated |-> FALSE, time |-> D(d, idx).time ]

EarlyBullishMarker(curr) ==
    [ time |-> curr.time, position |-> "belowBar", color |-> EARLY_COLOR_BULLISH_FVG,
      shape |-> "square", text |-> <<"FVG_UP">>, size |-> 1 ]

EarlyBearishMarker(curr) ==
    [ time |-> curr.time, position |-> "aboveBar", color |-> EARLY_COLOR_BEARISH_FVG,
      shape |-> "square", text |-> <<"FVG_DOWN">>, size |-> 1 ]

\* the marker of a long entry, text `<star> LONG`
EarlyLongMarker(curr) ==
    [ time |-> curr.time, position |-> "belowBar", color |-> EARLY_COLOR_LONG_ENTRY,
      shape |-> "arrowUp", text |-> <<"STAR", "LONG">>, size |-> 2 ]

\* the marker of a short entry, text `<star> SHORT`
EarlyShortMarker(curr) ==
    [ time |-> curr.time, position |-> "aboveBar", color |-> EARLY_COLOR_SHORT_ENTRY,
      shape |-> "arrowDown", text |-> <<"STAR", "SHORT">>, size |-> 2 ]

\* Phase A of iteration idx on the locals st of the early findFVGs
EarlyPhaseA(d, idx, st) ==
    LET curr == D(d, idx)
        s1 == IF EarlyBullishFVG(d, idx)
              THEN [st EXCEPT !.openZones = Append(@, EarlyBullishZone(d, idx)),
                              !.markers = Append(@, EarlyBullishMarker(curr))]
              ELSE st
    IN IF EarlyBearishFVG(d, idx)
       THEN [s1 EXCEPT !.openZones = Append(@, EarlyBearishZone(d, idx)),
                       !.markers = Append(@, EarlyBearishMarker(curr))]
       ELSE s1

\* mutant of EarlySkipZone: a zone is tested against its own forming candle
EarlySkipZone_MitigatedOnly(zone, curr) == zone.mitigated

\* if (zone.mitigated) continue; if (zone.time === curr.time) continue;
EarlySkipZone(zone, curr) ==
    IF zone.mitigated THEN TRUE
    ELSE IF zone.time = curr.time THEN TRUE ELSE FALSE

RECURSIVE EarlyPhaseB(_, _, _, _)
\* Phase B of iteration idx: the body of `for (const zone of openZones)` for
\* the zones at positions k, k+1, ... of st.openZones; st.mitLog is history,
\* one entry per execution of zone.mitigated = true
EarlyPhaseB(d, idx, k, st) ==
    IF k > Len(st.openZones) THEN st
    ELSE
      LET zone == st.openZones[k]
          curr == D(d, idx)
      IN IF EarlySkipZone(zone, curr) THEN EarlyPhaseB(d, idx, k + 1, st)
         ELSE IF zone.type = "bullish"
         THEN IF curr.low <= zone.top /\ curr.low >= zone.bottom
              THEN EarlyPhaseB(d, idx, k + 1,
                     [st EXCEPT !.openZones[k].mitigated = TRUE,
                                !.markers = Append(@, EarlyLongMarker(curr)),
                                !.mitLog = Append(@, [zone |-> k, at |-> idx,
                                                      type |-> "LONG"])])
              ELSE EarlyPhaseB(d, idx, k + 1, st)
         ELSE IF curr.high >= zone.bottom /\ curr.high <= zone.top
              THEN EarlyPhaseB(d, idx, k + 1,
                     [st EXCEPT !.openZones[k].mitigated = TRUE,
                                !.markers = Append(@, EarlyShortMarker(curr)),
                                !.mitLog = Append(@, [zone |-> k, at |-> idx,
                                                      type |-> "SHORT"])])
              ELSE EarlyPhaseB(d, idx, k + 1, st)

RECURSIVE EarlyScanRange(_, _, _, _)
\* the iterations lo .. hi-1 of `for (let i = 2; i < data.length; i++)`, in
\* order, on the locals st
EarlyScanRange(d, lo, hi, st) ==
    IF lo >= hi THEN st
    ELSE IF hi = lo + 1 THEN EarlyPhaseB(d, lo, 1, EarlyPhaseA(d, lo, st))
    ELSE LET mid == (lo + hi) \div 2
             st1 == EarlyScanRange(d, lo, mid, st)
         IN IF Len(st1.openZones) >= Len(st.openZones)
            THEN EarlyScanRange(d, mid, hi, st1)
            ELSE st1

\* the locals of the early findFVGs(d) when its loop is left
EarlyScanAll(d) ==
    EarlyScanRange(d, 2, Len(d),
                   [openZones |-> << >>, markers |-> << >>, mitLog |-> << >>])

\* markers.sort(comparator): the comparator is that of CompareTime
EarlySortMarkers(ms) == SortFrom(ms, 1, << >>)

\* if (data.length < Math.max(3, SMA_PERIOD)) return []
EarlyTooShort(d) == Len(d) < MathMax(3, EARLY_SMA_PERIOD)

\* the early findFVGs(d) from entry to return
EarlyFindFVGs(d) ==
    IF EarlyTooShort(d) THEN << >>
    ELSE EarlySortMarkers(EarlyScanAll(d).markers)

(* ------------------------------- claims ------------------------------- *)

\* indices of the log entries whose score clears / misses the threshold
HighMitigations == { a \in DOMAIN mitLog : mitLog[a].totalScore >= 60 }
LowMitigations == { a \in DOMAIN mitLog : mitLog[a].totalScore < 60 }

\* C1: for every candle sequence shorter than 50 candles (the empty one
\* included) findFVGs returns empty markers and empty signals, and it does
\* so at once: the scan loop is never entered on such a sequence.
C1_MinimumHistory ==
    Len(data) < 50 =>
        /\ pc # "scan"
        /\ pc = "done" => result = [markers |-> << >>, signals |-> << >>]

\* a returned call on 49 candles that end with a gap above the candle two
\* positions earlier
C1_Witness ==
    /\ pc = "done"
    /\ Len(data) = 49
    /\ data[49].low > data[47].high
    /\ result.markers = << >> /\ result.signals = << >>

\* C2: threshold gate: every signal, in the locals and in the returned
\* result, has totalScore >= 60, and the signals are as many as the
\* mitigations that scored at least 60: a mitigation that scored less is
\* not among them.
C2_ThresholdGate ==
    /\ \A k \in DOMAIN signals : signals[k].totalScore >= 60
    /\ \A k \in DOMAIN result.signals : result.signals[k].totalScore >= 60
    /\ Len(signals) = Cardinality(HighMitigations)

\* a returned call in which one mitigation scored below 60 and another one
\* became a signal
C2_Witness ==
    /\ pc = "done"
    /\ LowMitigations # {}
    /\ Len(result.signals) >= 1

\* the log entries of the zone at position k of openZones
MitigationsOf(k) == { a \in DOMAIN mitLog : mitLog[a].zone = k }

\* the positions of the entry markers (arrows) in a marker list
EntryMarkers(ms) == { k \in DOMAIN ms : ms[k].shape \in {"arrowUp", "arrowDown"} }

\* the log entries that cleared the threshold, in the order they were made
HighLog == SelectSeq(mitLog, LAMBDA e : e.totalScore >= 60)

\* C3: mitigation idempotence: over one scan every zone is mitigated at most
\* once (it is flagged exactly when it has its one log entry), the signals
\* and the entry markers are as many as the zones whose mitigation cleared
\* the threshold, and a step never clears a mitigated flag nor adds a
\* mitigation to a zone that is already mitigated.
C3_MitigationIdempotence ==
    /\ [](\A k \in DOMAIN openZones :
            /\ Cardinality(MitigationsOf(k)) <= 1
            /\ openZones[k].mitigated <=> MitigationsOf(k) # {})
    /\ [](/\ Len(signals) = Cardinality({ mitLog[a].zone : a \in HighMitigations })
          /\ Cardinality(EntryMarkers(markers)) = Len(signals))
    /\ [][\A k \in DOMAIN openZones :
            openZones[k].mitigated =>
                /\ k \in DOMAIN openZones'
                /\ openZones'[k].mitigated
                /\ { a \in DOMAIN mitLog' : mitLog'[a].zone = k } = MitigationsOf(k)]_vars

\* a zone whose mitigation became a signal, and a later candle, already
\* scanned, that satisfies the mitigation condition of that zone again
C3_Witness ==
    /\ pc = "scan"
    /\ \E a \in HighMitigations :
          /\ mitLog[a].at < i - 1
          /\ MitigationType(openZones[mitLog[a].zone], D(data, i - 1)) # "null"

\* C4: self-exclusion: every mitigation of a zone happens at a candle index
\* strictly greater than the zone's formation index, so does every signal
\* (it carries the time of that later candle), and a zone formed by the
\* candle just scanned is still open.
C4_SelfExclusion ==
    /\ \A a \in DOMAIN mitLog :
          mitLog[a].at > openZones[mitLog[a].zone].formedAt
    /\ \A k \in DOMAIN signals :
          k \in DOMAIN HighLog =>
             /\ signals[k].time = D(data, HighLog[k].at).time
             /\ HighLog[k].at > openZones[HighLog[k].zone].formedAt
    /\ pc = "scan" =>
          \A k \in DOMAIN openZones :
             openZones[k].formedAt = i - 1 => ~openZones[k].mitigated

\* a zone that became a signal at a later candle although its own forming
\* candle satisfies its mitigation condition
C4_Witness ==
    \E a \in HighMitigations :
       LET zone == openZones[mitLog[a].zone]
       IN /\ MitigationType(zone, D(data, zone.formedAt)) # "null"
          /\ mitLog[a].at > zone.formedAt

\* the order of two time values of one representation: numbers by value,
\* "YYYY-MM-DD" strings by the order of the days they name
TimeLess(a, b) == a.kind = b.kind /\ a.v < b.v
TimeLessEq(a, b) == a.kind = b.kind /\ a.v <= b.v

StrictlyAscending(d) ==
    \A k \in 1 .. Len(d) - 1 : TimeLess(d[k].time, d[k + 1].time)

NonDecreasing(recs) ==
    \A k \in 1 .. Len(recs) - 1 : TimeLessEq(recs[k].time, recs[k + 1].time)

\* C5: ordering invariant: when the input is strictly ascending by time, in
\* epoch seconds or in calendar-date strings, the returned markers and the
\* returned signals are each non-decreasing in time.
C5_OrderingInvariant ==
    (pc = "done" /\ StrictlyAscending(data)) =>
        /\ NonDecreasing(result.markers)
        /\ NonDecreasing(result.signals)

\* a returned call on an ascending input of epoch seconds with a formation
\* marker, entry markers and two signals at different times
C5_Witness ==
    /\ pc = "done"
    /\ Len(result.signals) >= 2
    /\ Len(result.markers) >= 3
    /\ StrictlyAscending(data)
    /\ data[1].time.kind = "num"
    /\ result.markers[1].time # result.markers[Len(result.markers)].time

\* C6: determinism and no cross-call state: any two returned invocations on
\* the same candle sequence returned identical markers and signals, whatever
\* was invoked before or between them, and while an invocation scans, every
\* zone in its list was formed by that invocation, at an index of its own
\* argument that it has already scanned.
C6_NoCrossCallState ==
    /\ \A a, b \in DOMAIN calls :
          calls[a][1] = calls[b][1] => calls[a][2] = calls[b][2]
    /\ pc = "scan" =>
          \A k \in DOMAIN openZones :
             /\ openZones[k].formedAt >= 2
             /\ openZones[k].formedAt < i
             /\ openZones[k].time = D(data, openZones[k].formedAt).time

\* the same sequence invoked first and third, with signals in its result,
\* and between the two an invocation on another sequence that left a zone
\* unmitigated
C6_Witness ==
    /\ pc = "done"
    /\ Len(calls) = 3
    /\ calls[1][1] = calls[3][1]
    /\ calls[2][1] # calls[1][1]
    /\ calls[3][2].signals # << >>
    /\ calls[2][2].markers # << >>
    /\ calls[2][2].signals = << >>

RECURSIVE SumOver(_, _)
\* the sum of f[x] over the x of the finite set S
SumOver(f, S) ==
    IF S = {} THEN 0
    ELSE LET x == CHOOSE y \in S : TRUE IN f[x] + SumOver(f, S \ {x})

Closes == [j \in 0 .. Len(data) - 1 |-> D(data, j).close]
Bodies == [j \in 0 .. Len(data) - 1 |->
             IF D(data, j).close >= D(data, j).open
             THEN D(data, j).close - D(data, j).open
             ELSE D(data, j).open - D(data, j).close]

\* close[idx] against the mean of the 50 closes ending at idx, and the body
\* of idx-1 against 1.5 times the mean body of the 14 candles ending at idx-1
TrendUp(idx) == 50 * Closes[idx] > SumOver(Closes, (idx - 49) .. idx)
TrendDown(idx) == 50 * Closes[idx] < SumOver(Closes, (idx - 49) .. idx)
Displacement(idx) ==
    2 * 14 * Bodies[idx - 1] > 3 * SumOver(Bodies, (idx - 14) .. (idx - 1))

GapUp(idx) == D(data, idx).low > D(data, idx - 2).high
GapDown(idx) == D(data, idx).high < D(data, idx - 2).low

ExpectBullish(idx) ==
    idx >= 49 /\ GapUp(idx) /\ TrendUp(idx) /\ Displacement(idx)
ExpectBearish(idx) ==
    idx >= 49 /\ GapDown(idx) /\ TrendDown(idx) /\ Displacement(idx)

ZonesAt(idx, type) ==
    { k \in DOMAIN openZones :
        openZones[k].formedAt = idx /\ openZones[k].type = type }

\* C7: zone formation: on an input of at least 50 candles, for every scanned
\* index idx >= 2 exactly one bullish zone exists for idx when low[idx] >
\* high[idx-2], idx >= 49, close[idx] > SMA50 ending at idx and the body of
\* idx-1 exceeds 1.5 times the mean body of the 14 candles ending at idx-1,
\* and none otherwise; the same for bearish zones with high[idx] <
\* low[idx-2] and close[idx] < SMA50; there is no other zone.
C7_ZoneFormation ==
    (pc \in {"scan", "done"} /\ Len(data) >= 50) =>
        /\ \A idx \in 2 .. i - 1 :
              /\ Cardinality(ZonesAt(idx, "bullish")) =
                    (IF ExpectBullish(idx) THEN 1 ELSE 0)
              /\ Cardinality(ZonesAt(idx, "bearish")) =
                    (IF ExpectBearish(idx) THEN 1 ELSE 0)
        /\ \A k \in DOMAIN openZones :
              /\ openZones[k].formedAt \in 2 .. i - 1
              /\ openZones[k].type \in {"bullish", "bearish"}

\* a finished scan that formed a bullish and a bearish zone and passed an
\* index at or after 49 with a gap and the trend but without displacement
C7_Witness ==
    /\ pc = "done"
    /\ Len(data) >= 50
    /\ \E k \in DOMAIN openZones : openZones[k].type = "bullish"
    /\ \E k \in DOMAIN openZones : openZones[k].type = "bearish"
    /\ \E idx \in 49 .. Len(data) - 1 :
          /\ \/ GapUp(idx) /\ TrendUp(idx)
             \/ GapDown(idx) /\ TrendDown(idx)
          /\ ~Displacement(idx)

\* candle j re-enters the zone: its low (bullish) or its high (bearish) lies
\* in [bottom, top]
Touches(zone, j) ==
    IF zone.type = "bullish"
    THEN zone.bottom <= D(data, j).low /\ D(data, j).low <= zone.top
    ELSE zone.bottom <= D(data, j).high /\ D(data, j).high <= zone.top

\* the scanned indices after the zone's formation that re-enter it
TouchesOf(zone) == { j \in (zone.formedAt + 1) .. (i - 1) : Touches(zone, j) }

Least(S) == CHOOSE m \in S : \A n \in S : m <= n

\* C8: first-touch mitigation: on an input strictly ascending in time, a
\* zone formed at f is mitigated exactly when some scanned index j > f has
\* its low (bullish) or high (bearish) in [bottom, top], and it was
\* mitigated at the smallest such j; a zone no scanned candle re-entered in
\* that sense is open.
C8_FirstTouch ==
    (pc \in {"scan", "done"} /\ StrictlyAscending(data)) =>
        \A k \in DOMAIN openZones :
           LET zone == openZones[k]
               touches == TouchesOf(zone)
           IN /\ zone.mitigated <=> touches # {}
              /\ touches = {} => MitigationsOf(k) = {}
              /\ touches # {} =>
                    /\ MitigationsOf(k) # {}
                    /\ \A a \in MitigationsOf(k) : mitLog[a].at = Least(touches)

\* a bullish zone that a candle passed entirely through (its low below the
\* zone's bottom) without mitigating it, and that a later candle mitigated
C8_Witness ==
    /\ pc \in {"scan", "done"}
    /\ StrictlyAscending(data)
    /\ \E a \in DOMAIN mitLog :
          LET zone == openZones[mitLog[a].zone]
          IN /\ zone.type = "bullish"
             /\ \E j \in (zone.formedAt + 1) .. (mitLog[a].at - 1) :
                   D(data, j).low < zone.bottom /\ D(data, j).high > zone.top

\* the score the zone would get if it were mitigated at index j
ScoreAt(zone, j) ==
    calculateCompositeScore(data, j, MitigationType(zone, D(data, j)), zone,
                            sma(data, j, SMA_PERIOD)).totalScore

\* C9: a sub-threshold mitigation consumes the zone: a zone whose mitigation
\* scored below 60 is flagged mitigated and that mitigation remains its only
\* one, and the signals and entry markers are exactly those of the
\* mitigations that scored at least 60, so the zone has no signal and no
\* entry marker, whatever later candles re-enter it.
C9_SubThresholdConsumes ==
    /\ \A a \in LowMitigations :
          /\ openZones[mitLog[a].zone].mitigated
          /\ MitigationsOf(mitLog[a].zone) = {a}
    /\ Len(signals) = Len(HighLog)
    /\ \A k \in DOMAIN signals :
          k \in DOMAIN HighLog =>
             /\ signals[k].time = D(data, HighLog[k].at).time
             /\ signals[k].type = HighLog[k].type
             /\ signals[k].totalScore = HighLog[k].totalScore
    /\ Cardinality(EntryMarkers(markers)) = Len(HighLog)

\* a zone whose mitigation scored below 60, and a later scanned candle that
\* re-enters the zone and would score at least 60 there
C9_Witness ==
    /\ pc \in {"scan", "done"}
    /\ \E a \in LowMitigations :
          \E j \in (mitLog[a].at + 1) .. (i - 1) :
             /\ MitigationType(openZones[mitLog[a].zone], D(data, j)) # "null"
             /\ ScoreAt(openZones[mitLog[a].zone], j) >= 60

\* the direction a marker stands for, by its anchor
MarkerSide(m) == IF m.position = "belowBar" THEN "up" ELSE "down"
ZoneSide(zone) == IF zone.type = "bullish" THEN "up" ELSE "down"
SignalSide(sig) == IF sig.type = "LONG" THEN "up" ELSE "down"

\* the markers of ms are the formation markers of zs and the entry markers of
\* ss, one for one: at every time and side there are as many squares as
\* zones formed and as many arrows as signals, and there is nothing else
MarkersMatch(ms, zs, ss) ==
    /\ Len(ms) = Len(zs) + Len(ss)
    /\ \A k \in DOMAIN ms :
          \/ /\ ms[k].shape = "square"
             /\ ms[k].position \in {"belowBar", "aboveBar"}
          \/ ms[k].shape = "arrowUp" /\ ms[k].position = "belowBar"
          \/ ms[k].shape = "arrowDown" /\ ms[k].position = "aboveBar"
    /\ \A t \in { ms[k].time : k \in DOMAIN ms } \cup { zs[k].time : k \in DOMAIN zs }
                \cup { ss[k].time : k \in DOMAIN ss } :
          \A side \in {"up", "down"} :
             /\ Cardinality({ k \in DOMAIN ms : /\ ms[k].time = t
                                                /\ MarkerSide(ms[k]) = side
                                                /\ ms[k].shape = "square" })
                  = Cardinality({ k \in DOMAIN zs : /\ zs[k].time = t
                                                    /\ ZoneSide(zs[k]) = side })
             /\ Cardinality({ k \in DOMAIN ms : /\ ms[k].time = t
                                                /\ MarkerSide(ms[k]) = side
                                                /\ ms[k].shape # "square" })
                  = Cardinality({ k \in DOMAIN ss : /\ ss[k].time = t
                                                    /\ SignalSide(ss[k]) = side })

\* C10: marker set: the markers, during the scan and as returned, are one
\* formation marker per zone created, at the zone's formation time, plus one
\* entry marker per emitted signal, at the signal's time (arrowUp/belowBar
\* for LONG, arrowDown/aboveBar for SHORT), and nothing else; their number
\* is the number of zones plus the number of signals.
C10_MarkerSet ==
    /\ pc \in {"scan", "done"} => MarkersMatch(markers, openZones, signals)
    /\ (pc = "done" /\ Len(data) >= 50) =>
          MarkersMatch(result.markers, openZones, result.signals)

\* a returned call with a bullish and a bearish zone, one of which stayed
\* open while the other became a signal: three markers
C10_Witness ==
    /\ pc = "done"
    /\ Len(result.signals) >= 1
    /\ Len(result.markers) >= 3
    /\ \E k \in DOMAIN openZones : ~openZones[k].mitigated
    /\ \E k \in DOMAIN openZones : openZones[k].type = "bearish"
    /\ \E k \in DOMAIN openZones : openZones[k].type = "bullish"

\* the breakdown the zone would get if it were mitigated at index j
BreakdownAt(zone, j) ==
    calculateCompositeScore(data, j, MitigationType(zone, D(data, j)), zone,
                            sma(data, j, SMA_PERIOD)).breakdown

\* candle j is the first candle after the zone's formation that re-enters it
FirstTouch(zone, j) ==
    /\ zone.formedAt < j
    /\ Touches(zone, j)
    /\ \A m \in (zone.formedAt + 1) .. (j - 1) : ~Touches(zone, m)

\* C11: independent simultaneous mitigation: on an input strictly ascending
\* in time, every zone that a scanned candle j is the first to re-enter was
\* mitigated at j, whatever other zones that candle mitigated, and with the
\* score and breakdown computed for that zone alone; the signals and the
\* entry markers carrying the time of candle j are as many as the
\* mitigations at j that scored at least 60.
C11_IndependentMitigation ==
    (pc \in {"scan", "done"} /\ StrictlyAscending(data)) =>
        \A j \in 2 .. i - 1 :
           /\ \A k \in DOMAIN openZones :
                 FirstTouch(openZones[k], j) =>
                    \E a \in DOMAIN mitLog :
                       /\ mitLog[a].zone = k
                       /\ mitLog[a].at = j
                       /\ mitLog[a].type =
                             (IF openZones[k].type = "bullish" THEN "LONG" ELSE "SHORT")
                       /\ mitLog[a].totalScore = ScoreAt(openZones[k], j)
                       /\ mitLog[a].breakdown = BreakdownAt(openZones[k], j)
           /\ Cardinality({ k \in DOMAIN signals : signals[k].time = D(data, j).time })
                = Cardinality({ a \in HighMitigations : mitLog[a].at = j })
           /\ Cardinality({ k \in EntryMarkers(markers) :
                              markers[k].time = D(data, j).time })
                = Cardinality({ a \in HighMitigations : mitLog[a].at = j })

\* one candle of an ascending input that mitigated two zones formed at
\* different indices, both with a score of at least 60: two signals with
\* that candle's time
C11_Witness ==
    /\ pc \in {"scan", "done"}
    /\ StrictlyAscending(data)
    /\ \E a, b \in HighMitigations :
          /\ mitLog[a].at = mitLog[b].at
          /\ openZones[mitLog[a].zone].formedAt # openZones[mitLog[b].zone].formedAt
          /\ Cardinality({ k \in DOMAIN signals :
                             signals[k].time = D(data, mitLog[a].at).time }) = 2

\* the zones no candle after their formation has re-entered
Untouched == { k \in DOMAIN openZones : TouchesOf(openZones[k]) = {} }

\* the formation markers of ms at the time and on the side of the zone
FormationMarkersOf(ms, zone) ==
    { m \in DOMAIN ms : /\ ms[m].shape = "square"
                        /\ ms[m].time = zone.time
                        /\ MarkerSide(ms[m]) = ZoneSide(zone) }

\* C12: unmitigated gap: after a finished scan, a zone that no candle after
\* its formation index re-entered (low, for a bullish zone, or high, for a
\* bearish one, in [bottom, top]) is open and was never scored, it has its
\* one formation marker in the result, and the signals are no more than the
\* zones that were re-entered; when it is the only zone, the result is that
\* one formation marker and no signal.
C12_UnmitigatedGap ==
    (pc = "done" /\ Len(data) >= 50) =>
        /\ \A k \in Untouched :
              /\ ~openZones[k].mitigated
              /\ MitigationsOf(k) = {}
              /\ Cardinality(FormationMarkersOf(result.markers, openZones[k]))
                   = Cardinality({ z \in DOMAIN openZones :
                                     /\ openZones[z].time = openZones[k].time
                                     /\ openZones[z].type = openZones[k].type })
        /\ Len(result.signals) <= Len(openZones) - Cardinality(Untouched)
        /\ (Len(openZones) = 1 /\ Untouched = {1}) =>
              /\ Len(result.markers) = 1
              /\ result.markers[1].shape = "square"
              /\ result.markers[1].time = D(data, openZones[1].formedAt).time
              /\ result.signals = << >>

\* a finished scan with a single zone, followed by at least two candles, one
\* of which traded through the whole zone, and none of which re-entered it
C12_Witness ==
    /\ pc = "done"
    /\ Len(openZones) = 1
    /\ Untouched = {1}
    /\ openZones[1].formedAt + 2 < Len(data)
    /\ \E j \in (openZones[1].formedAt + 1) .. (Len(data) - 1) :
          D(data, j).low < openZones[1].bottom /\ D(data, j).high > openZones[1].top
    /\ Len(result.markers) = 1

CriterionNames ==
    { "marketStructure", "sessionOverlap", "orderBlock", "fvgPresence",
      "liquiditySwept", "discountPremium", "candlestick" }

\* the weights as the claim lists them
ClaimedWeight ==
    [ marketStructure |-> 20, sessionOverlap |-> 15, orderBlock |-> 20,
      fvgPresence |-> 15, liquiditySwept |-> 15, discountPremium |-> 10,
      candlestick |-> 5 ]

\* max is the fixed weight, score is max or 0 as passed says, and total is
\* the sum of the seven scores, an integer of 0 .. 100
WellShaped(total, breakdown) ==
    /\ DOMAIN breakdown = CriterionNames
    /\ \A c \in CriterionNames :
          /\ breakdown[c].max = ClaimedWeight[c]
          /\ breakdown[c].passed \in BOOLEAN
          /\ breakdown[c].score = (IF breakdown[c].passed THEN breakdown[c].max ELSE 0)
    /\ total = SumOver([c \in CriterionNames |-> breakdown[c].score], CriterionNames)
    /\ total \in 0 .. 100

\* C13: score breakdown shape: in every signal, emitted or returned, and in
\* every scored mitigation, each of the seven criteria has max equal to its
\* fixed weight (20, 15, 20, 15, 15, 10, 5, in sum 100), score equal to max
\* when passed and 0 when not, and totalScore is the sum of the seven
\* scores, an integer of 0 .. 100.
C13_BreakdownShape ==
    /\ SumOver(ClaimedWeight, CriterionNames) = 100
    /\ \A k \in DOMAIN signals :
          WellShaped(signals[k].totalScore, signals[k].breakdown)
    /\ \A k \in DOMAIN result.signals :
          WellShaped(result.signals[k].totalScore, result.signals[k].breakdown)
    /\ \A a \in DOMAIN mitLog :
          WellShaped(mitLog[a].totalScore, mitLog[a].breakdown)

\* a returned signal in which, besides FVG presence, some criteria passed
\* and some failed
C13_Witness ==
    /\ pc = "done"
    /\ \E k \in DOMAIN result.signals :
          LET bd == result.signals[k].breakdown
          IN /\ \E c \in CriterionNames \ {"fvgPresence"} : bd[c].passed
             /\ \E c \in CriterionNames : ~bd[c].passed
             /\ result.signals[k].totalScore < 100

\* how many of the seven criteria passed
PassedCount(breakdown) ==
    Cardinality({ c \in CriterionNames : breakdown[c].passed })

\* the log entries in which fewer than four criteria passed
FewPassed == { a \in DOMAIN mitLog : PassedCount(mitLog[a].breakdown) < 4 }

\* C14: whenever fewer than 4 of the 7 criteria pass at a mitigation, the
\* total score is below 60, the zone is flagged mitigated, and no signal
\* and no entry marker come of it: the signals and the entry markers are
\* no more than the mitigations with at least 4 passed criteria, and every
\* signal, emitted or returned, has at least 4 passed criteria.
C14_FewerThanFour ==
    /\ \A a \in FewPassed :
          /\ mitLog[a].totalScore < 60
          /\ openZones[mitLog[a].zone].mitigated
          /\ \A k \in DOMAIN HighLog : HighLog[k] # mitLog[a]
    /\ Len(signals) <= Len(mitLog) - Cardinality(FewPassed)
    /\ Cardinality(EntryMarkers(markers)) <= Len(mitLog) - Cardinality(FewPassed)
    /\ \A k \in DOMAIN signals : PassedCount(signals[k].breakdown) >= 4
    /\ \A k \in DOMAIN result.signals : PassedCount(result.signals[k].breakdown) >= 4

\* a returned call in which a mitigation with exactly three passed criteria
\* was the only one, and the result has the formation marker alone
C14_Witness ==
    /\ pc = "done"
    /\ Len(mitLog) = 1
    /\ PassedCount(mitLog[1].breakdown) = 3
    /\ openZones[mitLog[1].zone].mitigated
    /\ result.signals = << >>
    /\ EntryMarkers(result.markers) = {}
    /\ Len(result.markers) = Len(openZones)

\* top and bottom as the zone's direction and formation index determine them
GeometryOf(zone) ==
    IF zone.type = "bullish"
    THEN [ top |-> D(data, zone.formedAt).low,
           bottom |-> D(data, zone.formedAt - 2).high ]
    ELSE [ top |-> D(data, zone.formedAt - 2).low,
           bottom |-> D(data, zone.formedAt).high ]

\* C15: zone geometry invariant: every zone in the list has top > bottom,
\* with top = low[f] and bottom = high[f-2] for a bullish zone formed at f
\* and top = low[f-2] and bottom = high[f] for a bearish one; and a step of
\* the scan leaves every zone at its position in the list with its top,
\* bottom, direction and formation index unchanged.
C15_ZoneGeometry ==
    /\ [](\A k \in DOMAIN openZones :
            /\ openZones[k].top > openZones[k].bottom
            /\ openZones[k].type \in {"bullish", "bearish"}
            /\ openZones[k].formedAt \in 2 .. Len(data) - 1
            /\ openZones[k].top = GeometryOf(openZones[k]).top
            /\ openZones[k].bottom = GeometryOf(openZones[k]).bottom)
    /\ [][\A k \in DOMAIN openZones :
            /\ k \in DOMAIN openZones'
            /\ openZones'[k].top = openZones[k].top
            /\ openZones'[k].bottom = openZones[k].bottom
            /\ openZones'[k].type = openZones[k].type
            /\ openZones'[k].formedAt = openZones[k].formedAt]_vars

\* a finished scan with a bullish zone and, formed after it, a bearish zone
\* that was mitigated
C15_Witness ==
    /\ pc = "done"
    /\ \E k, m \in DOMAIN openZones :
          /\ k < m
          /\ openZones[k].type = "bullish"
          /\ openZones[m].type = "bearish" /\ openZones[m].mitigated

\* at index idx there is a gap in either direction and the candle before it
\* is displaced: only the trend filter stands between idx and a zone
GapAndDisplacement(idx) ==
    (GapUp(idx) \/ GapDown(idx)) /\ Displacement(idx)

\* C16: warm-up suppression: no zone is formed at an index below 49, where
\* the 50-period average is not computable, whatever gap and displacement
\* are there; so nothing is emitted while the scan is below 49, every zone
\* (and its marker) is of an index >= 49, every mitigation (and so every
\* signal and entry marker) is of an index >= 50, and an input of exactly 50
\* candles returns at most one marker and no signal.
C16_WarmupSuppression ==
    /\ \A k \in DOMAIN openZones : openZones[k].formedAt >= 49
    /\ \A a \in DOMAIN mitLog : mitLog[a].at >= 50
    /\ Len(markers) = Len(openZones) + Len(signals)
    /\ Len(signals) <= Len(mitLog)
    /\ (pc = "scan" /\ i <= 49) =>
          markers = << >> /\ signals = << >> /\ openZones = << >>
    /\ (pc = "done" /\ Len(data) = 50) =>
          Len(result.markers) <= 1 /\ result.signals = << >>

\* a returned call on exactly 50 candles with a gap and a displaced candle
\* at index 48 and again at index 49: the result is the one marker of 49
C16_Witness ==
    /\ pc = "done"
    /\ Len(data) = 50
    /\ GapAndDisplacement(48)
    /\ GapAndDisplacement(49)
    /\ Len(result.markers) = 1
    /\ result.markers[1].time = D(data, 49).time

\* the time values of the input candles
InputTimes == { data[k].time : k \in DOMAIN data }

\* the records of ms carry, time value by time value, the times of the
\* candles that formed the zones and of the candles whose mitigation
\* cleared the threshold
TimesPreserved(ms) ==
    /\ \A k \in DOMAIN ms : ms[k].time \in InputTimes
    /\ \A t \in InputTimes :
          Cardinality({ k \in DOMAIN ms : ms[k].time = t })
            = Cardinality({ z \in DOMAIN openZones :
                              D(data, openZones[z].formedAt).time = t })
              + Cardinality({ h \in DOMAIN HighLog : D(data, HighLog[h].at).time = t })

\* C17: time representation is preserved: the time field of every marker
\* and signal, while scanning and in the returned result, is exactly the
\* time value, number or string, of the input candle at whose index the
\* record was emitted; sorting the markers changes no time field.
C17_TimePreserved ==
    /\ pc \in {"scan", "done"} =>
          /\ TimesPreserved(markers)
          /\ \A k \in DOMAIN signals :
                k \in DOMAIN HighLog /\ signals[k].time = D(data, HighLog[k].at).time
    /\ (pc = "done" /\ Len(data) >= 50) =>
          /\ TimesPreserved(result.markers)
          /\ Len(result.signals) = Len(HighLog)
          /\ \A k \in DOMAIN result.signals :
                result.signals[k].time = D(data, HighLog[k].at).time

\* a returned call on candles dated by calendar-date strings, with a
\* formation marker and the entry marker and signal of a later candle
C17_Witness ==
    /\ pc = "done"
    /\ Len(result.signals) >= 1
    /\ Len(result.markers) >= 2
    /\ \A k \in DOMAIN result.markers : result.markers[k].time.kind = "date"
    /\ result.signals[1].time.kind = "date"
    /\ result.markers[1].time # result.markers[Len(result.markers)].time

\* every zone of the list zs was formed by the scan of d, at an index below idx
OwnZones(zs, d, idx) ==
    \A k \in DOMAIN zs :
       /\ zs[k].formedAt \in 2 .. idx - 1
       /\ zs[k].time = D(d, zs[k].formedAt).time

\* C18: concurrent-call safety: when the steps of two invocations of
\* findFVGs on candle sequences of their own are interleaved in any order,
\* each returns the markers and signals it returns when run alone, and
\* while it scans, its zone list holds only zones it formed itself.
C18_ConcurrentCalls ==
    /\ pc = "done" => result = findFVGs(data)
    /\ peer.pc = "done" => peer.result = findFVGs(peer.data)
    /\ pc = "scan" => OwnZones(openZones, data, i)
    /\ peer.pc = "scan" => OwnZones(peer.openZones, peer.data, peer.i)

\* the first invocation has returned signals after the second one, on
\* another sequence, had formed a zone and before the second one returns
\* its own signals: the second is past the first half of its scan, the first
\* was entered after the second had left its warm-up
C18_Witness ==
    /\ pc = "done"
    /\ result.signals # << >>
    /\ peer.pc = "scan"
    /\ peer.data # data
    /\ peer.i < Len(peer.data)
    /\ \E k \in DOMAIN peer.openZones : ~peer.openZones[k].mitigated
    /\ findFVGs(peer.data).signals # << >>
    /\ peer.signals = << >>

\* close[j] against the mean of the 50 closes ending at j, for the direction
AlignedAt(type, j) ==
    IF type = "LONG" THEN TrendUp(j) ELSE TrendDown(j)

Breached(type, f) ==
    LET first == MathMax(0, f - 11)
    IN /\ f - 2 >= first
       /\ IF type = "LONG"
          THEN \A j \in first .. f - 2 : D(data, f - 1).low < D(data, j).low
          ELSE \A j \in first .. f - 2 : D(data, f - 1).high > D(data, j).high

\* C20: the liquidity-sweep criterion of every mitigation passed exactly
\* when the candle at f-1, f the zone's formation index, went below the
\* lowest low (LONG) or above the highest high (SHORT) of the 10 candles
\* before that candle, and failed when it did not breach that extreme.
C20_LiquiditySweep ==
    \A a \in DOMAIN mitLog :
       mitLog[a].breakdown.liquiditySwept.passed
          <=> Breached(mitLog[a].type, openZones[mitLog[a].zone].formedAt)

\* the highest high and the lowest low of the candles from .. to
HighestHigh(from, to) ==
    CHOOSE h \in { D(data, j).high : j \in from .. to } :
       \A j \in from .. to : D(data, j).high <= h
LowestLow(from, to) ==
    CHOOSE l \in { D(data, j).low : j \in from .. to } :
       \A j \in from .. to : l <= D(data, j).low

\* twice the midpoint of the range of the 40 candles j-40 .. j-1
TwiceMid(j) == HighestHigh(j - 40, j - 1) + LowestLow(j - 40, j - 1)

\* C21: discount/premium criterion: for every mitigation, at index j, with
\* mid the mean of the highest high and the lowest low of the 40 candles
\* j-40 .. j-1, the criterion passed (score 10) when close[j] is below mid
\* for LONG or above mid for SHORT, and failed (score 0) when close[j] is
\* on the other side of mid.
C21_DiscountPremium ==
    \A a \in DOMAIN mitLog :
       LET j == mitLog[a].at
           close2 == 2 * D(data, j).close
           dp == mitLog[a].breakdown.discountPremium
       IN /\ j >= 40
          /\ dp.score = (IF dp.passed THEN 10 ELSE 0)
          /\ mitLog[a].type = "LONG" =>
                /\ close2 < TwiceMid(j) => dp.passed
                /\ close2 > TwiceMid(j) => ~dp.passed
          /\ mitLog[a].type = "SHORT" =>
                /\ close2 > TwiceMid(j) => dp.passed
                /\ close2 < TwiceMid(j) => ~dp.passed

\* a LONG mitigation whose candle closed above the midpoint of the 40
\* candles before it, and failed, although it closed below the midpoint
\* that the range would have with the candle's own high in it
C21_Witness ==
    /\ pc = "done"
    /\ \E a \in DOMAIN mitLog :
          LET j == mitLog[a].at
          IN /\ mitLog[a].type = "LONG"
             /\ 2 * D(data, j).close > TwiceMid(j)
             /\ 2 * D(data, j).close < HighestHigh(j - 40, j) + LowestLow(j - 40, j)
             /\ ~mitLog[a].breakdown.discountPremium.passed

\* the wick opposite the trade direction
RejectionWick(c, type) ==
    IF type = "LONG"
    THEN (IF c.open <= c.close THEN c.open ELSE c.close) - c.low
    ELSE c.high - (IF c.open >= c.close THEN c.open ELSE c.close)

BodyOf(c) == IF c.close >= c.open THEN c.close - c.open ELSE c.open - c.close

\* C22: candlestick-rejection criterion: for every mitigation it passed
\* (score 5) exactly when the mitigation candle has high > low and the wick
\* opposite the trade direction is greater than half of |close - open|; at a
\* candle of zero range it failed, and the total is still the sum of the
\* seven scores, an integer of 0 .. 100.
C22_CandlestickRejection ==
    \A a \in DOMAIN mitLog :
       LET c == D(data, mitLog[a].at)
           cs == mitLog[a].breakdown.candlestick
       IN /\ cs.passed <=> (/\ c.high > c.low
                            /\ 2 * RejectionWick(c, mitLog[a].type) > BodyOf(c))
          /\ cs.score = (IF cs.passed THEN 5 ELSE 0)
          /\ c.high = c.low => ~cs.passed
          /\ WellShaped(mitLog[a].totalScore, mitLog[a].breakdown)

\* a returned call in which a candle of zero range mitigated a zone, failed
\* the criterion and still became a signal, with the score logged for it
C22_Witness ==
    /\ pc = "done"
    /\ \E a \in HighMitigations :
          /\ D(data, mitLog[a].at).high = D(data, mitLog[a].at).low
          /\ ~mitLog[a].breakdown.candlestick.passed
          /\ \E k \in DOMAIN result.signals :
                /\ result.signals[k].time = D(data, mitLog[a].at).time
                /\ ~result.signals[k].breakdown.candlestick.passed
                /\ result.signals[k].totalScore = mitLog[a].totalScore

\* the time is a calendar-date string or a number of seconds below 10^9
DailyTime(time) == time.kind = "date" \/ time.v < 1000000000

\* C23: the session-overlap criterion always fails on daily-or-above
\* candles: at every mitigation whose candle is timed by a calendar-date
\* string or by a number below 10^9, sessionOverlap has passed = false and
\* score 0, and the total is at most 85; so is every signal at such a
\* candle.
C23_SessionDaily ==
    /\ \A a \in DOMAIN mitLog :
          DailyTime(D(data, mitLog[a].at).time) =>
             /\ ~mitLog[a].breakdown.sessionOverlap.passed
             /\ mitLog[a].breakdown.sessionOverlap.score = 0
             /\ mitLog[a].totalScore <= 85
    /\ \A k \in DOMAIN result.signals :
          DailyTime(result.signals[k].time) =>
             /\ ~result.signals[k].breakdown.sessionOverlap.passed
             /\ result.signals[k].breakdown.sessionOverlap.score = 0
             /\ result.signals[k].totalScore <= 85

\* a returned signal at a candle timed by a number below 10^9 whose time of
\* day lies in a session window
C23_Witness ==
    /\ pc = "done"
    /\ \E k \in DOMAIN result.signals :
          LET t == result.signals[k].time
          IN /\ t.kind = "num"
             /\ t.v < 1000000000
             /\ (t.v % 86400) \div 60 \in 870 .. 990
             /\ ~result.signals[k].breakdown.sessionOverlap.passed

\* the minute of the day in UTC, and on a clock five hours behind UTC
UtcMinute(t) == (t % 86400) \div 60
NewYorkMinute(t) == ((t - 5 * 3600) % 86400) \div 60

Preceding(j, n) == { k \in 0 .. Len(data) - 1 : k < j /\ j - k <= n }

\* x within [lo/1000 * edge, hi/1000 * edge]
InBand(x, lo, hi, edge) == x * 1000 >= lo * edge /\ x * 1000 <= hi * edge

\* candle k has its low (LONG) or high (SHORT) in the band of the zone edge
NearEdge(k, e) ==
    IF e.type = "LONG"
    THEN InBand(D(data, k).low, 995, 1002, openZones[e.zone].bottom)
    ELSE InBand(D(data, k).high, 998, 1005, openZones[e.zone].top)

\* C25: order-block criterion: for a mitigation at index j it passes exactly
\* when one of the 20 candles j-20 .. j-1 has its low (LONG) within
\* [0.995 * bottom, 1.002 * bottom] or its high (SHORT) within
\* [0.998 * top, 1.005 * top]; the candle at j, later candles and candles
\* more than 20 before j never count.
C25_OrderBlock ==
    \A n \in 1 .. Len(mitLog) :
        LET e == mitLog[n] IN
        /\ e.breakdown.orderBlock.passed <=>
              \E k \in Preceding(e.at, 20) : NearEdge(k, e)
        /\ e.breakdown.orderBlock.score =
              IF \E k \in Preceding(e.at, 20) : NearEdge(k, e)
              THEN CONFLUENCE_WEIGHTS.orderBlock ELSE 0

\* a mitigation whose own candle and the candle 21 before it are both in the
\* band, with no candle of the 20 between them in it: the criterion failed
C25_Witness ==
    \E n \in 1 .. Len(mitLog) :
        LET e == mitLog[n] IN
        /\ e.at >= 21
        /\ NearEdge(e.at, e)
        /\ NearEdge(e.at - 21, e)
        /\ ~ e.breakdown.orderBlock.passed

\* the points of the six criteria other than fvgPresence
OtherPoints(breakdown) ==
    SumOver([c \in CriterionNames |-> breakdown[c].score],
            CriterionNames \ {"fvgPresence"})

\* fvgPresence as the claim has it
PresencePassed(breakdown) ==
    breakdown.fvgPresence.passed /\ breakdown.fvgPresence.score = 15

\* C26: the FVG-presence criterion passes unconditionally: every computed
\* breakdown has fvgPresence passed with score 15, so every composite score
\* is at least 15, and a signal has at least 45 points from the other six
\* criteria: the signals are those of the mitigations with 45 such points.
C26_PresenceUnconditional ==
    /\ \A a \in DOMAIN mitLog :
          /\ PresencePassed(mitLog[a].breakdown)
          /\ mitLog[a].totalScore >= 15
          /\ mitLog[a].totalScore = 15 + OtherPoints(mitLog[a].breakdown)
    /\ \A k \in DOMAIN signals :
          PresencePassed(signals[k].breakdown) /\ OtherPoints(signals[k].breakdown) >= 45
    /\ \A k \in DOMAIN result.signals :
          /\ PresencePassed(result.signals[k].breakdown)
          /\ OtherPoints(result.signals[k].breakdown) >= 45
    /\ Len(signals)
          = Cardinality({ a \in DOMAIN mitLog : OtherPoints(mitLog[a].breakdown) >= 45 })

\* a returned call with a signal of exactly 60 points: 45 from the other six
\* criteria and the 15 of fvgPresence, without which it would not be one
C26_Witness ==
    /\ pc = "done"
    /\ \E k \in DOMAIN result.signals :
          /\ OtherPoints(result.signals[k].breakdown) = 45
          /\ result.signals[k].totalScore = 60
          /\ result.signals[k].breakdown.fvgPresence.passed

\* the locals of the early findFVGs on data when it returns
EarlyLocals ==
    IF EarlyTooShort(data)
    THEN [openZones |-> << >>, markers |-> << >>, mitLog |-> << >>]
    ELSE EarlyScanAll(data)

\* a marker without its label text
Unlabelled(m) ==
    [ time |-> m.time, position |-> m.position, color |-> m.color,
      shape |-> m.shape, size |-> m.size ]
UnlabelledSeq(ms) == [ k \in DOMAIN ms |-> Unlabelled(ms[k]) ]

FormationOnly(ms) == SelectSeq(ms, LAMBDA m : m.shape = "square")
EntryOnly(ms) == SelectSeq(ms, LAMBDA m : m.shape \in {"arrowUp", "arrowDown"})

RECURSIVE KeepHigh(_, _, _)
\* the early markers ms[k], ms[k+1], ... in the order they were pushed, less
\* the entry markers of the mitigations a, a+1, ... that scored below 60
KeepHigh(ms, k, a) ==
    IF k > Len(ms) THEN << >>
    ELSE IF ms[k].shape = "square" THEN <<ms[k]>> \o KeepHigh(ms, k + 1, a)
    ELSE IF mitLog[a].totalScore >= 60 THEN <<ms[k]>> \o KeepHigh(ms, k + 1, a + 1)
    ELSE KeepHigh(ms, k + 1, a + 1)

RECURSIVE IsSubsequence(_, _)
\* xs is ys with some elements left out
IsSubsequence(xs, ys) ==
    IF xs = << >> THEN TRUE
    ELSE IF ys = << >> THEN FALSE
    ELSE IF Head(xs) = Head(ys) THEN IsSubsequence(Tail(xs), Tail(ys))
    ELSE IsSubsequence(xs, Tail(ys))

\* C27: early variant against scoring variant: on the same input the early
\* findFVGs and the scoring findFVGs create the same zones, mitigate them at
\* the same indices and return the same formation markers; the early one has
\* an entry marker for every mitigation, at the mitigation candle and on its
\* side; the scoring one returns, label text apart, the early markers less
\* the entry markers of the mitigations that scored below 60, so its markers
\* are the early markers with some left out.
C27_EarlyVariant ==
    pc = "done" =>
        LET early == EarlyLocals
            returned == EarlyFindFVGs(data)
        IN /\ Len(early.openZones) = Len(openZones)
           /\ \A k \in DOMAIN openZones :
                 early.openZones[k] =
                     [ type |-> openZones[k].type, top |-> openZones[k].top,
                       bottom |-> openZones[k].bottom,
                       mitigated |-> openZones[k].mitigated,
                       time |-> openZones[k].time ]
           /\ early.mitLog =
                 [ a \in DOMAIN mitLog |->
                     [ zone |-> mitLog[a].zone, at |-> mitLog[a].at,
                       type |-> mitLog[a].type ] ]
           /\ FormationOnly(returned) = FormationOnly(result.markers)
           /\ Len(EntryOnly(early.markers)) = Len(early.mitLog)
           /\ \A a \in DOMAIN early.mitLog :
                 LET m == EntryOnly(early.markers)[a] IN
                 /\ m.time = D(data, early.mitLog[a].at).time
                 /\ m.position = (IF early.mitLog[a].type = "LONG"
                                  THEN "belowBar" ELSE "aboveBar")
                 /\ m.shape = (IF early.mitLog[a].type = "LONG"
                               THEN "arrowUp" ELSE "arrowDown")
           /\ UnlabelledSeq(result.markers)
                 = UnlabelledSeq(EarlySortMarkers(KeepHigh(early.markers, 1, 1)))
           /\ IsSubsequence(UnlabelledSeq(result.markers), UnlabelledSeq(returned))

\* a returned call with a mitigation that scored at least 60 and one that
\* scored less, for which only the early findFVGs returns an entry marker
C27_Witness ==
    /\ pc = "done"
    /\ HighMitigations # {}
    /\ LowMitigations # {}
    /\ Len(EntryOnly(result.markers)) > 0
    /\ Len(EntryOnly(EarlyFindFVGs(data))) > Len(EntryOnly(result.markers))

\* the first k candles of data
Prefix(k) == SubSeq(data, 1, k)

\* findFVGs run alone on the first k candles, and its locals at loop exit
PrefixResult(k) == findFVGs(Prefix(k))
PrefixLocals(k) ==
    IF TooShort(Prefix(k))
    THEN [openZones |-> << >>, markers |-> << >>, signals |-> << >>, mitLog |-> << >>]
    ELSE ScanAll(Prefix(k))

\* how many markers and signals the scan has emitted at indices below k
SignalsBelow(k) == Cardinality({ a \in HighMitigations : mitLog[a].at < k })
MarkersBelow(k) ==
    Cardinality({ z \in DOMAIN openZones : openZones[z].formedAt < k })
        + SignalsBelow(k)

\* C28: causality (prefix stability): findFVGs on the first k candles of D
\* returns the markers and signals that findFVGs(D) emitted at indices below
\* k, in the same order: a scan of D that has done the indices below i holds
\* the zones, mitigations, scores, signals and (once sorted) markers of a
\* whole run on the first i candles, and the result on a prefix is the
\* returned signals cut at k and the returned markers with the later ones
\* left out.
C28_PrefixStability ==
    /\ pc = "scan" =>
          /\ PrefixResult(i) = [markers |-> SortMarkers(markers), signals |-> signals]
          /\ PrefixLocals(i).openZones = openZones
          /\ PrefixLocals(i).mitLog = mitLog
    /\ pc = "done" =>
          \A k \in 0 .. Len(data) :
              LET r == PrefixResult(k) IN
              /\ r.signals = SubSeq(result.signals, 1, SignalsBelow(k))
              /\ Len(r.markers) = MarkersBelow(k)
              /\ IsSubsequence(r.markers, result.markers)

\* a returned call on 52 candles with a signal at index 50 that the run on
\* the first 51 candles returns too, the last candle trading below every
\* low of the 40 candles before index 50
C28_Witness ==
    /\ pc = "done"
    /\ Len(data) = 52
    /\ \E a \in HighMitigations : mitLog[a].at = 50
    /\ PrefixResult(51).signals # << >>
    /\ D(data, 51).low < MinLow(data, 10, 50)

\* the zones formed at index idx
FormedAt(idx) == { z \in DOMAIN openZones : openZones[z].formedAt = idx }

\* the indices from 49 to n-1 for n candles
FormingIndices == (SMA_PERIOD - 1) .. (Len(data) - 1)

\* C29: at most one zone forms per candle index: the bullish and the
\* bearish formation conditions never hold together at one index, so the
\* zones, and the formation markers, are no more than the indices from 49 to
\* n-1, and the signals are no more than the zones.
C29_OneZonePerIndex ==
    /\ (pc = "scan" /\ i < Len(data)) => ~(BullishFVG(data, i) /\ BearishFVG(data, i))
    /\ \A idx \in 0 .. Len(data) - 1 : Cardinality(FormedAt(idx)) <= 1
    /\ \A z \in DOMAIN openZones : openZones[z].formedAt \in FormingIndices
    /\ Len(openZones) <= Cardinality(FormingIndices)
    /\ Len(FormationOnly(markers)) <= Cardinality(FormingIndices)
    /\ Len(FormationOnly(result.markers)) <= Cardinality(FormingIndices)
    /\ Len(signals) <= Len(openZones)
    /\ Len(result.signals) <= Len(openZones)

\* a returned call on at least 51 candles in which every index from 49 on
\* formed a zone, a bearish one right after a bullish one
C29_Witness ==
    /\ pc = "done"
    /\ Len(data) >= 51
    /\ Len(openZones) = Cardinality(FormingIndices)
    /\ Len(FormationOnly(result.markers)) = Cardinality(FormingIndices)
    /\ \E a, b \in DOMAIN openZones :
          /\ openZones[a].type = "bullish"
          /\ openZones[b].type = "bearish"
          /\ openZones[b].formedAt = openZones[a].formedAt + 1

\* zone z after a step is zone z before it, or differs from it in mitigated
\* alone, which went from false to true
SameButMitigated(before, after) ==
    \/ after = before
    \/ /\ ~before.mitigated
       /\ after = [before EXCEPT !.mitigated = TRUE]

\* C30: purity of the scan: no step of findFVGs changes the input candle
\* sequence (its length, its order and every field of every candle stay as
\* they were at the call), the open-zone list only grows, and a zone on it
\* changes in its mitigated field alone, from false to true.
C30_Purity ==
    [][ /\ data' = data
        /\ Len(openZones') >= Len(openZones)
        /\ \A k \in DOMAIN openZones :
              SameButMitigated(openZones[k], openZones'[k]) ]_vars

\* a returned call that pushed a zone, mitigated it with a signal and left a
\* later zone open
C30_Witness ==
    /\ pc = "done"
    /\ result.signals # << >>
    /\ \E a, b \in DOMAIN openZones :
          /\ a < b
          /\ openZones[a].mitigated
          /\ ~openZones[b].mitigated

=============================================================================
